---- MODULE Spec2Model ----
(***************************************************************************)
(* Document360API (src/document360_api.py): a client for one REST          *)
(* resource (drive folders) with four operations, get_all_folders,         *)
(* create_folder, update_folder_name and delete_folder, and one mutable    *)
(* field, self.folder_id.  The remote service is the environment: every    *)
(* call draws the transport's outcome (a RequestException, or a response   *)
(* with a status code and a body) from a bounded set.                      *)
(***************************************************************************)
EXTENDS Integers, Sequences, FiniteSets, TLC

\* Bounds of the model: how many folder ids exist, and how long the list
\* under "data" may be.
MaxId == 2
MaxFolders == 2

----------------------------------------------------------------------------
(* Values *)

\* Python's None, the empty string (a falsy id) and the ids the service uses.
None == -1
EmptyId == 0
FolderIds == 1..MaxId
IdValues == {None, EmptyId} \cup FolderIds

\* Python truthiness of an id, as tested by "x or y", "if x" and "if not x".
Truthy(x) == x # None /\ x # EmptyId

\* The value under "data".  shape "object" is a JSON object (a folder
\* record; id = None when the record holds no "id"), "list" a JSON array
\* whose elements are folder records ("record") or values that are not
\* objects ("scalar"), "null" a value that is neither, "absent" no "data" key.
Data(shape, id, items) == [shape |-> shape, id |-> id, items |-> items]
AbsentData == Data("absent", None, <<>>)
NullData == Data("null", None, <<>>)
ObjectData(id) == Data("object", id, <<>>)
ListData(items) == Data("list", None, items)
EmptyDict == ObjectData(None)
EmptyList == ListData(<<>>)

ListItems == UNION {[1..k -> {"record", "scalar"}] : k \in 0..MaxFolders}
RecordLists == {ListData(s) : s \in ListItems}
Records == {ObjectData(i) : i \in IdValues}

\* A response body: t is "empty" (no content), "text" (content that is not
\* JSON), "nonobject" (JSON, but not an object) or "object" (the envelope,
\* with its success flag, a JSON boolean, "true", "false" or "absent", its
\* data and its errors: "absent", a "list" of error objects, or "malformed").
Body(t, success, data, errors) ==
    [t |-> t, success |-> success, data |-> data, errors |-> errors]
EmptyBody == Body("empty", "absent", AbsentData, "absent")
TextBody == Body("text", "absent", AbsentData, "absent")
NonObjectBody == Body("nonobject", "absent", AbsentData, "absent")
Envelope(success, data, errors) == Body("object", success, data, errors)

\* What the transport hands back: a RequestException or a response.
Response(kind, status, body) == [kind |-> kind, status |-> status, body |-> body]
NoResponse == Response("none", 0, EmptyBody)
TransportError == Response("error", 0, EmptyBody)

\* A dispatched request: its verb, the folder id in its URL, its body's keys.
Request(method, target, keys) == [method |-> method, target |-> target, keys |-> keys]
NoRequest == Request("none", None, {})

\* What a call hands to its caller.
Result(kind, flag, data) == [kind |-> kind, flag |-> flag, data |-> data]
RNone == Result("None", FALSE, AbsentData)
RBool(b) == Result("bool", b, AbsentData)
RData(d) == Result("data", FALSE, d)
RRaise == Result("raise", FALSE, AbsentData)

----------------------------------------------------------------------------
(* The responses the environment may give *)

Statuses == {200, 201, 204, 404}

EnvelopesOver(D) ==
    {Envelope(s, d, "absent") : s \in {"true", "absent"}, d \in D}
        \cup {Envelope("false", d, "list") : d \in D}
        \cup {Envelope("false", AbsentData, e) : e \in {"absent", "malformed"}}
RawBodies == {EmptyBody, TextBody, NonObjectBody}

ResponsesOver(D) ==
    {TransportError}
        \cup {Response("response", st, b) : st \in Statuses,
                                            b \in RawBodies \cup EnvelopesOver(D)}

\* get_all_folders expects a list under "data", the others a folder record.
ListResponses == ResponsesOver({AbsentData, NullData} \cup RecordLists)
RecordResponses == ResponsesOver({AbsentData, NullData} \cup Records)

----------------------------------------------------------------------------
(* The client *)

VARIABLES
    folder_id,   \* self.folder_id
    prev_id,     \* self.folder_id when the last call began
    op,          \* the last operation called
    arg,         \* its folder_id argument (None when it has none)
    request,     \* the request it dispatched, or NoRequest
    response,    \* what the transport handed back, or NoResponse
    result,      \* what it returned
    decodes,     \* the places that called response.json() during it
    raised,      \* whether it let an exception propagate
    cleared      \* a delete has succeeded and no create has succeeded since

vars == <<folder_id, prev_id, op, arg, request, response, result, decodes, raised, cleared>>

\* The state of a try block when control leaves it: the exception in
\* flight ("none" for a return), the value returned, self.folder_id, and
\* the places that called response.json().
Outcome(exc, ret, fid, dec) == [exc |-> exc, ret |-> ret, fid |-> fid, decodes |-> dec]

\* log_response: always tries response.json(), and prints the raw text when
\* that fails; it changes nothing.
log_response(resp) == {"log_response"}

\* response.json() raises on a body that is not JSON.
Decodable(body) == body.t \in {"nonobject", "object"}

\* bool(response.content)
HasContentAlways(body) == TRUE
HasContent(body) == body.t # "empty"

\* response_data.get('success', default), as a condition
SuccessFlag(body, default) ==
    IF body.success = "absent" THEN default ELSE body.success = "true"

\* "for error in errors: error.get(...)" raises unless errors is a list of objects.
ErrorsRaise(body) == body.errors = "malformed"

\* The except clauses of every operation: RequestException, then Exception.
\* response.json() raises requests' JSONDecodeError, which is a ValueError
\* and, in recent versions of requests, a RequestException as well: one of
\* the two clauses takes it.
RequestExceptions == {"RequestException"}
Exceptions == {"RequestException", "JSONDecodeError", "AttributeError", "TypeError"}
HandledRequestOnly(exc) == exc \in RequestExceptions
Handled(exc) == exc \in RequestExceptions \/ exc \in Exceptions

\* try: ... except RequestException: return failure / except Exception:
\* return failure.  An exception no clause takes leaves the operation.
Catch(o, failure) ==
    IF o.exc = "none" THEN [ret |-> o.ret, fid |-> o.fid, decodes |-> o.decodes, raised |-> FALSE]
    ELSE IF Handled(o.exc)
         THEN [ret |-> failure, fid |-> o.fid, decodes |-> o.decodes, raised |-> FALSE]
         ELSE [ret |-> RRaise, fid |-> o.fid, decodes |-> o.decodes, raised |-> TRUE]

\* What a call leaves behind.
Call(req, resp, c) ==
    [request |-> req, response |-> resp, ret |-> c.ret, fid |-> c.fid,
     decodes |-> c.decodes, raised |-> c.raised]

\* folders = response_data.get('data', [])
get_folders_no_default(body) == body.data
get_folders(body) == IF body.data.shape = "absent" THEN EmptyList ELSE body.data

\* The try block of get_all_folders.
get_try(fid, resp) ==
    IF resp.kind = "error" THEN Outcome("RequestException", RNone, fid, {})
    ELSE LET logged == log_response(resp)
             dec == logged \cup {"get_all_folders"}
         IN  IF resp.status = 200
             THEN IF ~Decodable(resp.body) THEN Outcome("JSONDecodeError", RNone, fid, dec)
                  ELSE IF resp.body.t # "object" THEN Outcome("AttributeError", RNone, fid, dec)
                  ELSE LET folders == get_folders(resp.body)
                       IN  IF folders.shape # "list"
                           THEN Outcome("TypeError", RNone, fid, dec)        \* len(folders)
                           ELSE IF \E i \in DOMAIN folders.items : folders.items[i] # "record"
                           THEN Outcome("AttributeError", RNone, fid, dec)   \* folder.get
                           ELSE Outcome("none", RData(folders), fid, dec)
             ELSE Outcome("none", RNone, fid, logged)

get_all_folders_false(fid, resp) ==
    Call(Request("GET", None, {}), resp, Catch(get_try(fid, resp), RBool(FALSE)))
get_all_folders(fid, resp) ==
    Call(Request("GET", None, {}), resp, Catch(get_try(fid, resp), RNone))

\* if response_data.get('success', False)
create_success_default_true(body) == SuccessFlag(body, TRUE)
create_success(body) == SuccessFlag(body, FALSE)

\* The try block of create_folder.
create_try(fid, resp) ==
    IF resp.kind = "error" THEN Outcome("RequestException", RNone, fid, {})
    ELSE LET logged == log_response(resp)
             dec == logged \cup {"create_folder"}
         IN  IF resp.status \in {200, 201}
             THEN IF ~Decodable(resp.body) THEN Outcome("JSONDecodeError", RNone, fid, dec)
                  ELSE IF resp.body.t # "object" THEN Outcome("AttributeError", RNone, fid, dec)
                  ELSE IF create_success(resp.body)
                  THEN LET folder_data == IF resp.body.data.shape = "absent"
                                          THEN EmptyDict ELSE resp.body.data
                       IN  IF folder_data.shape # "object"
                           THEN Outcome("AttributeError", RNone, fid, dec)   \* folder_data.get
                           ELSE Outcome("none", RData(folder_data), folder_data.id, dec)
                  ELSE IF ErrorsRaise(resp.body) THEN Outcome("TypeError", RNone, fid, dec)
                  ELSE Outcome("none", RNone, fid, dec)
             ELSE Outcome("none", RNone, fid, logged)

\* The keys of create_folder's request body.
create_keys(parent_folder_id) ==
    {"title", "user_id"} \cup (IF Truthy(parent_folder_id) THEN {"parent_folder_id"} ELSE {})

create_folder_no_store(fid, parent_folder_id, resp) ==
    LET c == Catch(create_try(fid, resp), RNone)
    IN  Call(Request("POST", None, create_keys(parent_folder_id)), resp,
             [c EXCEPT !.fid = fid])
create_folder(fid, parent_folder_id, resp) ==
    Call(Request("POST", None, create_keys(parent_folder_id)), resp,
         Catch(create_try(fid, resp), RNone))

\* target_folder_id = folder_id or self.folder_id
target_folder_id(folder_id_arg, fid) == IF Truthy(folder_id_arg) THEN folder_id_arg ELSE fid

\* if not target_folder_id: return None
NoTargetUnchecked(target) == FALSE
NoTarget(target) == ~Truthy(target)

\* The call that returns before any request is built.
NoTargetCall(fid) == Call(NoRequest, NoResponse, Catch(Outcome("none", RNone, fid, {}), RNone))

\* The try block of update_folder_name.
update_try(fid, resp) ==
    IF resp.kind = "error" THEN Outcome("RequestException", RNone, fid, {})
    ELSE LET logged == log_response(resp)
             dec == logged \cup {"update_folder_name"}
         IN  IF resp.status = 200
             THEN IF ~Decodable(resp.body) THEN Outcome("JSONDecodeError", RNone, fid, dec)
                  ELSE IF resp.body.t # "object" THEN Outcome("AttributeError", RNone, fid, dec)
                  ELSE IF SuccessFlag(resp.body, FALSE)
                  THEN LET folder_data == IF resp.body.data.shape = "absent"
                                          THEN EmptyDict ELSE resp.body.data
                       IN  IF folder_data.shape # "object"
                           THEN Outcome("AttributeError", RNone, fid, dec)   \* folder_data.get
                           ELSE Outcome("none", RData(folder_data), fid, dec)
                  ELSE IF ErrorsRaise(resp.body) THEN Outcome("TypeError", RNone, fid, dec)
                  ELSE Outcome("none", RNone, fid, dec)
             ELSE Outcome("none", RNone, fid, logged)

update_folder_name_stores_target(fid, folder_id_arg, resp) ==
    LET target == target_folder_id(folder_id_arg, fid)
        c == Catch(update_try(fid, resp), RNone)
    IN  IF NoTarget(target) THEN NoTargetCall(fid)
        ELSE Call(Request("PUT", target, {"title", "user_id"}), resp, [c EXCEPT !.fid = target])
update_folder_name(fid, folder_id_arg, resp) ==
    LET target == target_folder_id(folder_id_arg, fid)
    IN  IF NoTarget(target) THEN NoTargetCall(fid)
        ELSE Call(Request("PUT", target, {"title", "user_id"}), resp,
                  Catch(update_try(fid, resp), RNone))

\* delete_folder's success: the body's flag when the body is a JSON object
\* (True when the flag is absent); True when there is no content, and
\* True as well when decoding or .get raises (the bare except).
delete_success_strict(body) ==
    /\ HasContent(body) => body.t = "object"
    /\ body.t = "object" => SuccessFlag(body, TRUE)
delete_success(body) ==
    IF HasContent(body)
    THEN IF body.t = "object" THEN SuccessFlag(body, TRUE) ELSE TRUE
    ELSE TRUE

\* The places of delete_folder that call response.json(): the success
\* check and the error listing, each only when the response has content.
delete_decodes(body) ==
    (IF HasContent(body) THEN {"delete_folder"} ELSE {})
        \cup (IF ~delete_success(body) /\ HasContent(body) THEN {"delete_folder errors"} ELSE {})

\* The try block of delete_folder.  The error listing has its own bare
\* except, so malformed errors raise nothing here.
delete_try(fid, resp) ==
    IF resp.kind = "error" THEN Outcome("RequestException", RBool(FALSE), fid, {})
    ELSE LET logged == log_response(resp)
         IN  IF resp.status \in {200, 204}
             THEN LET dec == logged \cup delete_decodes(resp.body)
                  IN  IF delete_success(resp.body)
                      THEN Outcome("none", RBool(TRUE), None, dec)
                      ELSE Outcome("none", RBool(FALSE), fid, dec)
             ELSE Outcome("none", RBool(FALSE), fid, logged)

delete_folder_clears_own_only(fid, folder_id_arg, resp) ==
    LET target == target_folder_id(folder_id_arg, fid)
        c == Catch(delete_try(fid, resp), RBool(FALSE))
    IN  IF NoTarget(target) THEN NoTargetCall(fid)
        ELSE Call(Request("DELETE", target, {"user_id"}), resp,
                  [c EXCEPT !.fid = IF target = fid THEN c.fid ELSE fid])
delete_folder(fid, folder_id_arg, resp) ==
    LET target == target_folder_id(folder_id_arg, fid)
    IN  IF NoTarget(target) THEN NoTargetCall(fid)
        ELSE Call(Request("DELETE", target, {"user_id"}), resp,
                  Catch(delete_try(fid, resp), RBool(FALSE)))

----------------------------------------------------------------------------
(* The state machine: a caller that makes one call after another *)

Init ==
    /\ folder_id = None
    /\ prev_id = None
    /\ op = "__init__"
    /\ arg = None
    /\ request = NoRequest
    /\ response = NoResponse
    /\ result = RNone
    /\ decodes = {}
    /\ raised = FALSE
    /\ cleared = FALSE

\* The effect of a call c of operation name with folder_id argument a.
Effect(name, a, c) ==
    /\ op' = name
    /\ arg' = a
    /\ prev_id' = folder_id
    /\ folder_id' = c.fid
    /\ request' = c.request
    /\ response' = c.response
    /\ result' = c.ret
    /\ decodes' = c.decodes
    /\ raised' = c.raised
    /\ cleared' = IF name = "delete_folder" /\ c.ret = RBool(TRUE) THEN TRUE
                  ELSE IF name = "create_folder" /\ c.ret.kind = "data" THEN FALSE
                  ELSE cleared

GetAllFolders ==
    \E resp \in ListResponses :
        Effect("get_all_folders", None, get_all_folders(folder_id, resp))

CreateFolder ==
    \E parent \in {None, EmptyId, 1}, resp \in RecordResponses :
        Effect("create_folder", None, create_folder(folder_id, parent, resp))

UpdateFolderName ==
    \E a \in IdValues, resp \in RecordResponses :
        Effect("update_folder_name", a, update_folder_name(folder_id, a, resp))

DeleteFolder ==
    \E a \in IdValues, resp \in RecordResponses :
        Effect("delete_folder", a, delete_folder(folder_id, a, resp))

Next == GetAllFolders \/ CreateFolder \/ UpdateFolderName \/ DeleteFolder

Spec == Init /\ [][Next]_vars

----------------------------------------------------------------------------
(* The last call, as the properties below read it *)

IsResponse == response.kind = "response"
Sent == request # NoRequest

\* The status codes an operation accepts.
Accepted(name) ==
    CASE name = "get_all_folders" -> {200}
      [] name = "create_folder" -> {200, 201}
      [] name = "update_folder_name" -> {200}
      [] name = "delete_folder" -> {200, 204}
      [] OTHER -> {}

\* The values by which an operation reports a failure: None, and for
\* delete_folder also False.
IsFailure(name, r) == r = RNone \/ (name = "delete_folder" /\ r = RBool(FALSE))

\* A list of folder records.
WellFormedList(d) == d.shape = "list" /\ \A i \in DOMAIN d.items : d.items[i] = "record"

\* The record an envelope carries: its data, {} when it has none.
RecordOf(body) == IF body.data.shape = "absent" THEN EmptyDict ELSE body.data

----------------------------------------------------------------------------
(* Properties *)

\* C1: after a create_folder call whose response has status 200 or 201 and
\* an envelope with success = true carrying a folder record (or no data,
\* which reads as the empty record), self.folder_id is that record's id,
\* whatever id was stored before, and the call returns the record.
C1_CreateStoresReturnedId ==
    (/\ op = "create_folder" /\ IsResponse
     /\ response.status \in {200, 201}
     /\ response.body.t = "object" /\ response.body.success = "true"
     /\ response.body.data.shape \in {"object", "absent"})
    => /\ folder_id = RecordOf(response.body).id
       /\ result = RData(RecordOf(response.body))

\* A create with status 201 that replaced one stored id by another.
C1_Witness ==
    /\ op = "create_folder" /\ IsResponse /\ response.status = 201
    /\ response.body.success = "true"
    /\ prev_id \in FolderIds /\ folder_id \in FolderIds /\ folder_id # prev_id
    /\ result = RData(ObjectData(folder_id))

\* C2: when self.folder_id is absent, update_folder_name and delete_folder
\* called without a folder id return the failure value None, dispatch no
\* request (so nothing comes back either), and leave self.folder_id absent.
C2_NoTargetNoRequest ==
    (op \in {"update_folder_name", "delete_folder"} /\ arg = None /\ prev_id = None)
    => /\ result = RNone
       /\ ~Sent /\ response = NoResponse /\ decodes = {}
       /\ folder_id = None

\* delete_folder() called after a successful delete cleared the stored id.
C2_Witness ==
    /\ op = "delete_folder" /\ arg = None /\ prev_id = None /\ cleared
    /\ result = RNone /\ ~Sent

\* C3: every delete_folder call that returns True leaves self.folder_id
\* absent, whether its target was the stored id or another one given
\* explicitly; and from then on, until a create succeeds, every
\* update_folder_name or delete_folder call without a folder id returns the
\* precondition failure without dispatching a request.
C3_DeleteClearsStoredId ==
    [][ /\ (op' = "delete_folder" /\ result' = RBool(TRUE)) => folder_id' = None
        /\ (cleared /\ op' \in {"update_folder_name", "delete_folder"} /\ arg' = None)
           => (result' = RNone /\ request' = NoRequest /\ folder_id' = None) ]_vars

\* A successful delete of an explicitly given folder other than the stored one.
C3_Witness ==
    /\ op = "delete_folder" /\ result = RBool(TRUE) /\ cleared
    /\ arg \in FolderIds /\ prev_id \in FolderIds /\ arg # prev_id
    /\ request.target = arg
    /\ folder_id = None

\* C4: update_folder_name never changes self.folder_id, whatever the
\* outcome and whether the target was given or defaulted; and a 200
\* response with success = false makes it return the failure value.
C4_UpdateKeepsStoredId ==
    op = "update_folder_name"
    => /\ folder_id = prev_id
       /\ (IsResponse /\ response.status = 200 /\ response.body.t = "object"
           /\ response.body.success = "false") => result = RNone

\* A rename of an explicitly given folder, other than the stored one,
\* answered 200 with success = false.
C4_Witness ==
    /\ op = "update_folder_name" /\ IsResponse /\ response.status = 200
    /\ response.body.t = "object" /\ response.body.success = "false"
    /\ arg \in FolderIds /\ prev_id \in FolderIds /\ arg # prev_id
    /\ request.target = arg /\ result = RNone

\* C5, as claimed: a delete_folder call answered 204 with an empty body
\* returns True, clears self.folder_id, and no step of the call, the
\* response logging included, calls response.json() on the empty content.
C5_NoDecodeOfEmptyContent ==
    (op = "delete_folder" /\ IsResponse /\ response.status = 204 /\ response.body.t = "empty")
    => /\ result = RBool(TRUE) /\ folder_id = None
       /\ decodes = {}

\* C5, amended: such a call returns True and clears self.folder_id, and
\* delete_folder's own steps do not call response.json(); log_response is
\* the one place that does (its failure is swallowed).
C5_OnlyLogDecodesEmptyContent ==
    (op = "delete_folder" /\ IsResponse /\ response.status = 204 /\ response.body.t = "empty")
    => /\ result = RBool(TRUE) /\ folder_id = None
       /\ decodes = {"log_response"}

\* A delete of the stored folder answered 204 with no body.
C5_Witness ==
    /\ op = "delete_folder" /\ IsResponse /\ response.status = 204
    /\ response.body.t = "empty"
    /\ prev_id \in FolderIds /\ arg = None /\ request.target = prev_id
    /\ result = RBool(TRUE)

\* The envelope shapes the properties count as malformed: a JSON value that
\* is no object, data that is neither a record nor a list of records,
\* errors that are no list of objects.
Malformed(body) ==
    \/ body.t = "nonobject"
    \/ /\ body.t = "object"
       /\ \/ body.data.shape = "null"
          \/ body.data.shape = "list" /\ ~WellFormedList(body.data)
          \/ body.errors = "malformed"

FailureCase ==
    \/ ~Sent
    \/ response.kind = "error"
    \/ /\ IsResponse
       /\ \/ response.status \notin Accepted(op)
          \/ /\ op = "get_all_folders"
             /\ \/ response.body.t # "object"
                \/ ~(response.body.data.shape = "absent" \/ WellFormedList(response.body.data))
          \/ /\ op \in {"create_folder", "update_folder_name"}
             /\ \/ response.body.t # "object"
                \/ response.body.success # "true"
                \/ response.body.data.shape \notin {"object", "absent"}
          \/ /\ op = "delete_folder"
             /\ response.body.t = "object" /\ response.body.success = "false"

RejectedResult == get_all_folders(None, Response("response", 404, TextBody)).ret
UnreachableResult == get_all_folders(None, TransportError).ret

\* C7, as claimed: what get_all_folders returns tells a decode failure on
\* a 200 response from a non-200 status and from a transport error, and
\* those two from each other.
C7_FailuresDistinguishable ==
    (op = "get_all_folders" /\ IsResponse /\ response.status = 200 /\ ~Decodable(response.body))
    => /\ result # RejectedResult
       /\ result # UnreachableResult
       /\ RejectedResult # UnreachableResult

\* C7, amended: get_all_folders returns the same value, None, for a
\* non-200 status, for a decode failure on a 200 response and for a
\* transport error; what it returns does not tell them apart.
C7_FailuresAllNone ==
    (/\ op = "get_all_folders"
     /\ \/ response.kind = "error"
        \/ IsResponse /\ response.status # 200
        \/ IsResponse /\ response.status = 200 /\ ~Decodable(response.body))
    => result = RNone

\* get_all_folders answered 200 with a body that is not JSON.
C7_Witness ==
    /\ op = "get_all_folders" /\ IsResponse /\ response.status = 200
    /\ response.body.t = "text"
    /\ result = RNone

\* C8: get_all_folders never changes self.folder_id; answered 200 with an
\* envelope whose data is a list of folder records it returns exactly that
\* list, and the empty list when data is the empty list or absent, a
\* value that differs from the failure value None.
C8_GetReturnsDataList ==
    op = "get_all_folders"
    => /\ folder_id = prev_id
       /\ (/\ IsResponse /\ response.status = 200 /\ response.body.t = "object"
           /\ response.body.data.shape = "absent" \/ WellFormedList(response.body.data))
          => /\ result = RData(IF response.body.data.shape = "absent"
                               THEN EmptyList ELSE response.body.data)
             /\ result # RNone

\* A 200 envelope without data, read as the empty list, with an id stored.
C8_Witness ==
    /\ op = "get_all_folders" /\ IsResponse /\ response.status = 200
    /\ response.body.t = "object" /\ response.body.data.shape = "absent"
    /\ result = RData(EmptyList)
    /\ folder_id \in FolderIds

\* C9, as claimed: for a delete_folder response with status 200 or 204
\* and a body that is not empty, the call returns True (and clears the
\* stored id) only if the body is JSON and its success flag is not false;
\* a body that is not JSON, or one with success = false, makes it return
\* the failure value and leave self.folder_id as it was.
C9_UndecodableBodyFails ==
    (/\ op = "delete_folder" /\ IsResponse
     /\ response.status \in {200, 204} /\ response.body.t # "empty")
    => /\ result = RBool(TRUE)
          => (Decodable(response.body) /\ response.body.success # "false" /\ folder_id = None)
       /\ (~Decodable(response.body) \/ response.body.success = "false")
          => (result = RBool(FALSE) /\ folder_id = prev_id)

\* C9, amended: such a call returns the failure value, and leaves
\* self.folder_id as it was, exactly when the body is a JSON object whose
\* success flag is false; otherwise (the flag true or absent, or a body
\* that is not a JSON object, not JSON at all included) it returns True
\* and clears self.folder_id.
C9_OnlyExplicitFalseFails ==
    (/\ op = "delete_folder" /\ IsResponse
     /\ response.status \in {200, 204} /\ response.body.t # "empty")
    => IF response.body.t = "object" /\ response.body.success = "false"
       THEN result = RBool(FALSE) /\ folder_id = prev_id
       ELSE result = RBool(TRUE) /\ folder_id = None

\* A delete of the stored folder answered 200 with a body that is not JSON.
C9_Witness ==
    /\ op = "delete_folder" /\ IsResponse /\ response.status = 200
    /\ response.body.t = "text"
    /\ prev_id \in FolderIds /\ folder_id = None
    /\ result = RBool(TRUE)

\* C10: a create_folder call returns the failure value and leaves
\* self.folder_id as it was whenever the transport fails, the status is
\* neither 200 nor 201, the body is not a JSON object, or its success flag
\* is absent or false; self.folder_id changes only on a 200 or 201 response
\* whose envelope has success = true.
C10_CreateNeedsExplicitSuccess ==
    op = "create_folder"
    => /\ ( \/ response.kind = "error"
            \/ IsResponse /\ response.status \notin {200, 201}
            \/ IsResponse /\ response.body.t # "object"
            \/ IsResponse /\ response.body.success \in {"absent", "false"} )
          => (result = RNone /\ folder_id = prev_id)
       /\ folder_id # prev_id
          => (/\ IsResponse /\ response.status \in {200, 201}
              /\ response.body.t = "object" /\ response.body.success = "true")

\* A create answered 201 with a record but no success flag.
C10_Witness ==
    /\ op = "create_folder" /\ IsResponse /\ response.status = 201
    /\ response.body.t = "object" /\ response.body.success = "absent"
    /\ response.body.data.shape = "object" /\ response.body.data.id \in FolderIds
    /\ response.body.data.id # prev_id
    /\ result = RNone

====
